---- MODULE Spec2Model ----
(***************************************************************************)
(* A model of the permission-guarded hierarchical store (class Store) and  *)
(* of the JSON flattening helper getAllPathFromJsonValue.                  *)
(*                                                                         *)
(* JavaScript strings that the code splits and joins (paths, keys) are     *)
(* sequences of one-character strings, so that split(':') and join(':')    *)
(* are computed and not assumed.  Store objects live in a heap: a store    *)
(* reference is an index into the sequence heap.                           *)
(***************************************************************************)
EXTENDS Integers, Sequences, FiniteSets, TLC

VARIABLES heap, last, steps

vars == <<heap, last, steps>>

(***************************************************************************)
(* Bounds of the model.                                                    *)
(***************************************************************************)
\* number of Store objects ever constructed
MaxStores == 4
\* number of mutating calls made by the caller
MaxSteps == 2
\* number of mutating calls made by the caller of the longer, narrower runs
MaxLongSteps == 3

(***************************************************************************)
(* Strings: String.prototype.split, Array.prototype.join, Number.toString  *)
(***************************************************************************)
RECURSIVE split(_, _)
split(s, sep) ==
    IF \E i \in 1..Len(s) : s[i] = sep
    THEN LET i == CHOOSE i \in 1..Len(s) :
                      s[i] = sep /\ \A j \in 1..(i - 1) : s[j] # sep
         IN  <<SubSeq(s, 1, i - 1)>> \o split(SubSeq(s, i + 1, Len(s)), sep)
    ELSE <<s>>

RECURSIVE join(_, _)
join(parts, sep) ==
    IF Len(parts) = 0 THEN <<>>
    ELSE IF Len(parts) = 1 THEN parts[1]
    ELSE parts[1] \o <<sep>> \o join(Tail(parts), sep)

Digits == <<"0", "1", "2", "3", "4", "5", "6", "7", "8", "9">>

\* an index rendered counting from one
toStringOneBased(n) == <<Digits[n + 2]>>

\* index.toString()
RECURSIVE toString(_)
toString(n) ==
    IF n < 10 THEN <<Digits[n + 1]>>
    ELSE toString(n \div 10) \o <<Digits[(n % 10) + 1]>>

(***************************************************************************)
(* Values.  One record shape for every StoreValue:                         *)
(*   k = "prim"       a JSONPrimitive, p its literal                       *)
(*   k = "undefined"                                                       *)
(*   k = "store"      a Store object, r its heap index                     *)
(*   k = "fn"         a () => StoreResult; f, p, r describe what it yields *)
(*   k = "json"       a JSONObject / JSONArray, c its index in Composites  *)
(***************************************************************************)
Undefined == [k |-> "undefined", f |-> "", p |-> "", r |-> 0, c |-> 0]
Prim(p) == [k |-> "prim", f |-> "", p |-> p, r |-> 0, c |-> 0]
StoreRef(r) == [k |-> "store", f |-> "", p |-> "", r |-> r, c |-> 0]
FnPrim(p) == [k |-> "fn", f |-> "prim", p |-> p, r |-> 0, c |-> 0]
FnStore(r) == [k |-> "fn", f |-> "store", p |-> "", r |-> r, c |-> 0]
FnUndefined == [k |-> "fn", f |-> "undefined", p |-> "", r |-> 0, c |-> 0]
Json(c) == [k |-> "json", f |-> "", p |-> "", r |-> 0, c |-> c]

\* entry(): the StoreResult a stored function yields
call(v) ==
    IF v.f = "prim" THEN Prim(v.p)
    ELSE IF v.f = "store" THEN StoreRef(v.r)
    ELSE Undefined

\* JavaScript truthiness of a value, as tested by `if (value)`
FalsyPrims == {"0", "''", "false", "null"}
truthy(v) ==
    IF v.k = "undefined" THEN FALSE
    ELSE IF v.k = "prim" THEN v.p \notin FalsyPrims
    ELSE TRUE

\* a path argument: a string, null or undefined
Str(s) == [k |-> "string", s |-> s]
NullPath == [k |-> "null", s |-> <<>>]
UndefinedPath == [k |-> "undefined", s |-> <<>>]

(***************************************************************************)
(* Map<string, _>: a function from the keys present.  The order in which   *)
(* a Map was filled is not kept: the code visits the entries only to fill  *)
(* a result object by key.                                                 *)
(***************************************************************************)
EmptyMap == <<>>
MapHas(m, key) == key \in DOMAIN m
MapGet(m, key) == IF key \in DOMAIN m THEN m[key] ELSE Undefined
MapSet(m, key, v) == (key :> v) @@ m

(***************************************************************************)
(* JSON values and getAllPathFromJsonValue                                 *)
(***************************************************************************)
JPrim(p) == [k |-> "prim", p |-> p, items |-> <<>>]
JArr(items) == [k |-> "arr", p |-> "", items |-> items]
\* an object is the sequence of its <<key, value>> pairs in key order
JObj(items) == [k |-> "obj", p |-> "", items |-> items]

\* PathValueMap.set: a Map keeps the position of a key that is set again
RECURSIVE PathMapSet(_, _, _)
PathMapSet(m, path, v) ==
    IF Len(m) = 0 THEN << <<path, v>> >>
    ELSE IF m[1][1] = path THEN << <<path, v>> >> \o Tail(m)
    ELSE <<m[1]>> \o PathMapSet(Tail(m), path, v)

RECURSIVE PathMapSetAll(_, _)
PathMapSetAll(m, sub) ==
    IF Len(sub) = 0 THEN m
    ELSE PathMapSetAll(PathMapSet(m, sub[1][1], sub[1][2]), Tail(sub))

RECURSIVE getAllPathFromJsonValue(_, _)
RECURSIVE FlattenItems(_, _, _, _)
FlattenItems(obj, currentPath, i, result) ==
    IF i > Len(obj.items) THEN result
    ELSE LET newPath == IF obj.k = "arr"
                        THEN Append(currentPath, toString(i - 1))
                        ELSE Append(currentPath, obj.items[i][1])
             item == IF obj.k = "arr" THEN obj.items[i] ELSE obj.items[i][2]
             subPaths == getAllPathFromJsonValue(item, newPath)
         IN  FlattenItems(obj, currentPath, i + 1, PathMapSetAll(result, subPaths))

getAllPathFromJsonValue(obj, currentPath) ==
    IF obj.k = "prim" THEN << <<join(currentPath, ":"), obj.p>> >>
    ELSE FlattenItems(obj, currentPath, 1, <<>>)

(***************************************************************************)
(* Inputs of the calls                                                     *)
(***************************************************************************)
\* the composite values written: {b: 1, a: [2, 3]}, [0, {a: 1}], {},
\* {a: {b: 1}, "a:b": 2}
Composites ==
    << JObj(<< <<(<<"b">>), JPrim("1")>>,
               <<(<<"a">>), JArr(<<JPrim("2"), JPrim("3")>>)>> >>),
       JArr(<<JPrim("0"), JObj(<< <<(<<"a">>), JPrim("1")>> >>)>>),
       JObj(<<>>),
       JObj(<< <<(<<"a">>), JObj(<< <<(<<"b">>), JPrim("1")>> >>)>>,
               <<(<<"a", ":", "b">>), JPrim("2")>> >>) >>

(***************************************************************************)
(* Store types.  "Store" is the class of the source; "Sub" stands for a    *)
(* class that extends Store and declares @Restrict("r") on its field b.    *)
(***************************************************************************)
StoreTypes == {"Store", "Sub"}

Parent(T) == IF T = "Sub" THEN "Store" ELSE "Object"

\* Restrict: the permissions recorded in the metadata of a class prototype
Restrict(T) == IF T = "Sub" THEN (<<"b">> :> "r") ELSE EmptyMap

\* constructor
Store(T) ==
    [type |-> T, defaultPolicy |-> "rw",
     permissionMap |-> Restrict(T), storeEntries |-> EmptyMap]

\* createInstance walks the prototype chain up to the last prototype below
\* Object.prototype and constructs that class
RECURSIVE TopOfChain(_)
TopOfChain(T) == IF Parent(T) = "Object" THEN T ELSE TopOfChain(Parent(T))

createInstance(this) == Store(TopOfChain(this.type))

(***************************************************************************)
(* Permissions                                                             *)
(***************************************************************************)
Permissions == {"r", "w", "rw", "none"}

\* the characters of a Permission string
PermissionChars(permission) ==
    IF permission = "r" THEN {"r"}
    ELSE IF permission = "w" THEN {"w"}
    ELSE IF permission = "rw" THEN {"r", "w"}
    ELSE {"n", "o", "e"}

includes(permission, ch) == ch \in PermissionChars(permission)

\* permissionMap.get(key) ?? this.defaultPolicy
getPermission(this, key) ==
    LET permission == IF MapHas(this.permissionMap, key)
                      THEN this.permissionMap[key] ELSE "undefined"
    IN  IF permission = "undefined" THEN this.defaultPolicy ELSE permission

setPermission(this, key, permission) ==
    [this EXCEPT !.permissionMap = MapSet(@, key, permission)]

allowedToRead(this, key) == includes(getPermission(this, key), "r")

\* a write check that looks for the read letter
allowedToWriteByR(this, key) == includes(getPermission(this, key), "r")

allowedToWrite(this, key) == includes(getPermission(this, key), "w")

(***************************************************************************)
(* read                                                                    *)
(***************************************************************************)
Returned(v) == [err |-> "none", val |-> v]
Raised(e) == [err |-> e, val |-> Undefined]

RECURSIVE read(_, _, _)

\* a multi-segment read that hands back undefined where the head holds no store
ReadNestedLenient(h, this, pathParts) ==
    LET entry == MapGet(h[this].storeEntries, pathParts[1])
        rest == Str(join(Tail(pathParts), ":"))
    IN  IF entry.k # "fn" /\ entry.k # "store" THEN Returned(Undefined)
        ELSE IF entry.k = "fn"
        THEN LET functionResult == call(entry)
             IN  IF functionResult.k # "store" THEN Returned(Undefined)
                 ELSE read(h, functionResult.r, rest)
        ELSE read(h, entry.r, rest)

\* a multi-segment read that checks the read permission of the head as well
ReadNestedChecksHead(h, this, pathParts) ==
    LET entry == MapGet(h[this].storeEntries, pathParts[1])
        rest == Str(join(Tail(pathParts), ":"))
    IN  IF ~allowedToRead(h[this], pathParts[1]) THEN Raised("ReadDenied")
        ELSE IF entry.k # "fn" /\ entry.k # "store" THEN Raised("IncorrectPath")
        ELSE IF entry.k = "fn"
        THEN LET functionResult == call(entry)
             IN  IF functionResult.k # "store" THEN Raised("IncorrectPath")
                 ELSE read(h, functionResult.r, rest)
        ELSE read(h, entry.r, rest)

\* a multi-segment read that does not invoke a function held under the head
ReadNestedNoCall(h, this, pathParts) ==
    LET entry == MapGet(h[this].storeEntries, pathParts[1])
        rest == Str(join(Tail(pathParts), ":"))
    IN  IF entry.k # "store" THEN Raised("IncorrectPath")
        ELSE read(h, entry.r, rest)

\* the branch of read for a path of several segments
ReadNested(h, this, pathParts) ==
    LET entry == MapGet(h[this].storeEntries, pathParts[1])
        rest == Str(join(Tail(pathParts), ":"))
    IN  IF entry.k # "fn" /\ entry.k # "store" THEN Raised("IncorrectPath")
        ELSE IF entry.k = "fn"
        THEN LET functionResult == call(entry)
             IN  IF functionResult.k # "store" THEN Raised("IncorrectPath")
                 ELSE read(h, functionResult.r, rest)
        ELSE read(h, entry.r, rest)

\* the branch of read for a path of one segment
ReadDirect(h, this, path) ==
    IF ~allowedToRead(h[this], path) THEN Raised("ReadDenied")
    ELSE LET entry == MapGet(h[this].storeEntries, path)
         IN  IF entry.k = "fn" THEN Returned(call(entry))
             ELSE Returned(entry)

read(h, this, path) ==
    IF path.k = "null" THEN Raised("NullPath")
    ELSE IF path.k = "undefined" THEN Raised("TypeError")
    ELSE LET pathParts == split(path.s, ":")
         IN  IF Len(pathParts) > 1 THEN ReadNested(h, this, pathParts)
             ELSE ReadDirect(h, this, path.s)

(***************************************************************************)
(* write.  A call yields the heap it leaves and the error it raised        *)
(* ("none" when it returned).  "Bound" marks a call that would construct   *)
(* more than MaxStores stores; the actions do not take such a call.        *)
(***************************************************************************)
Done(h) == [h |-> h, err |-> "none"]
Throw(h, e) == [h |-> h, err |-> e]

\* an assignment that leaves the map with the assigned entry alone
SetEntryAlone(h, this, key, v) ==
    [h EXCEPT ![this].storeEntries = (key :> v)]

SetEntry(h, this, key, v) ==
    [h EXCEPT ![this].storeEntries = MapSet(@, key, v)]

RECURSIVE write(_, _, _, _)
RECURSIVE WriteAll(_, _, _, _)
\* pathValueMap.forEach((val, key) => store.write(key, val))
WriteAll(h, store, pathValueMap, i) ==
    IF i > Len(pathValueMap) THEN Done(h)
    ELSE LET r == write(h, store, Str(pathValueMap[i][1]), Prim(pathValueMap[i][2]))
         IN  IF r.err # "none" THEN r
             ELSE WriteAll(r.h, store, pathValueMap, i + 1)

\* a multi-segment write that does not store the child store under the head
WriteNestedNoStore(h, this, pathParts, value) ==
    LET entry == MapGet(h[this].storeEntries, pathParts[1])
        isStore == entry.k = "store"
    IN  IF ~isStore /\ ~allowedToWrite(h[this], pathParts[1])
        THEN Throw(h, "WriteDenied")
        ELSE IF ~isStore /\ Len(h) >= MaxStores THEN Throw(h, "Bound")
        ELSE LET h1 == IF isStore THEN h
                       ELSE Append(h, createInstance(h[this]))
                 store == IF isStore THEN entry.r ELSE Len(h1)
             IN  write(h1, store, Str(join(Tail(pathParts), ":")), value)

\* a multi-segment write that checks the write permission of the head even
\* when the head holds a store
WriteNestedAlwaysChecks(h, this, pathParts, value) ==
    LET entry == MapGet(h[this].storeEntries, pathParts[1])
        isStore == entry.k = "store"
    IN  IF ~allowedToWrite(h[this], pathParts[1])
        THEN Throw(h, "WriteDenied")
        ELSE IF ~isStore /\ Len(h) >= MaxStores THEN Throw(h, "Bound")
        ELSE LET h1 == IF isStore THEN h
                       ELSE Append(h, createInstance(h[this]))
                 store == IF isStore THEN entry.r ELSE Len(h1)
                 r == write(h1, store, Str(join(Tail(pathParts), ":")), value)
             IN  IF r.err # "none" THEN r
                 ELSE Done(SetEntry(r.h, this, pathParts[1], StoreRef(store)))

\* a multi-segment write that goes into the store a function under the head
\* yields
WriteNestedThroughDeferred(h, this, pathParts, value) ==
    LET entry == MapGet(h[this].storeEntries, pathParts[1])
        target == IF entry.k = "fn" THEN call(entry) ELSE entry
        isStore == target.k = "store"
    IN  IF ~isStore /\ ~allowedToWrite(h[this], pathParts[1])
        THEN Throw(h, "WriteDenied")
        ELSE IF ~isStore /\ Len(h) >= MaxStores THEN Throw(h, "Bound")
        ELSE LET h1 == IF isStore THEN h
                       ELSE Append(h, createInstance(h[this]))
                 store == IF isStore THEN target.r ELSE Len(h1)
                 r == write(h1, store, Str(join(Tail(pathParts), ":")), value)
             IN  IF r.err # "none" THEN r
                 ELSE IF entry.k = "fn" /\ isStore THEN r
                 ELSE Done(SetEntry(r.h, this, pathParts[1], StoreRef(store)))

\* the branch of write for a path of several segments
WriteNested(h, this, pathParts, value) ==
    LET entry == MapGet(h[this].storeEntries, pathParts[1])
        isStore == entry.k = "store"
    IN  IF ~isStore /\ ~allowedToWrite(h[this], pathParts[1])
        THEN Throw(h, "WriteDenied")
        ELSE IF ~isStore /\ Len(h) >= MaxStores THEN Throw(h, "Bound")
        ELSE LET h1 == IF isStore THEN h
                       ELSE Append(h, createInstance(h[this]))
                 store == IF isStore THEN entry.r ELSE Len(h1)
                 r == write(h1, store, Str(join(Tail(pathParts), ":")), value)
             IN  IF r.err # "none" THEN r
                 ELSE Done(SetEntry(r.h, this, pathParts[1], StoreRef(store)))

\* a single-segment write whose permission check comes after the assignment
WriteDirectSetFirst(h, this, path, value) ==
    IF value.k # "json"
    THEN IF ~allowedToWrite(h[this], path)
         THEN Throw(SetEntry(h, this, path, value), "WriteDenied")
         ELSE Done(SetEntry(h, this, path, value))
    ELSE IF Len(h) >= MaxStores THEN Throw(h, "Bound")
    ELSE LET h1 == Append(h, createInstance(h[this]))
             store == Len(h1)
             pathValueMap == getAllPathFromJsonValue(Composites[value.c], <<>>)
             r == WriteAll(h1, store, pathValueMap, 1)
         IN  IF r.err # "none" THEN r
             ELSE IF ~allowedToWrite(h[this], path)
             THEN Throw(SetEntry(r.h, this, path, StoreRef(store)), "WriteDenied")
             ELSE Done(SetEntry(r.h, this, path, StoreRef(store)))

\* a single-segment write that expands a composite into the store already
\* held under the key, when there is one
WriteDirectMerge(h, this, path, value) ==
    IF ~allowedToWrite(h[this], path) THEN Throw(h, "WriteDenied")
    ELSE IF value.k # "json" THEN Done(SetEntry(h, this, path, value))
    ELSE LET entry == MapGet(h[this].storeEntries, path)
             isStore == entry.k = "store"
         IN  IF ~isStore /\ Len(h) >= MaxStores THEN Throw(h, "Bound")
             ELSE LET h1 == IF isStore THEN h
                            ELSE Append(h, createInstance(h[this]))
                      store == IF isStore THEN entry.r ELSE Len(h1)
                      pathValueMap ==
                          getAllPathFromJsonValue(Composites[value.c], <<>>)
                      r == WriteAll(h1, store, pathValueMap, 1)
                  IN  IF r.err # "none" THEN r
                      ELSE Done(SetEntry(r.h, this, path, StoreRef(store)))

\* the branch of write for a path of one segment
WriteDirect(h, this, path, value) ==
    IF ~allowedToWrite(h[this], path) THEN Throw(h, "WriteDenied")
    ELSE IF value.k # "json" THEN Done(SetEntry(h, this, path, value))
    ELSE IF Len(h) >= MaxStores THEN Throw(h, "Bound")
    ELSE LET h1 == Append(h, createInstance(h[this]))
             store == Len(h1)
             pathValueMap == getAllPathFromJsonValue(Composites[value.c], <<>>)
             r == WriteAll(h1, store, pathValueMap, 1)
         IN  IF r.err # "none" THEN r
             ELSE Done(SetEntry(r.h, this, path, StoreRef(store)))

write(h, this, path, value) ==
    IF path.k = "null" THEN Throw(h, "NullPath")
    ELSE IF path.k = "undefined" THEN Throw(h, "TypeError")
    ELSE LET pathParts == split(path.s, ":")
         IN  IF Len(pathParts) > 1 THEN WriteNested(h, this, pathParts, value)
             ELSE WriteDirect(h, this, path.s, value)

(***************************************************************************)
(* writeEntries.  An entries object is the sequence of its <<key, value>>  *)
(* pairs in the order Object.entries gives them.  The result also tells    *)
(* the index of the pair whose write raised (0 when none did).             *)
(***************************************************************************)
RECURSIVE WriteEach(_, _, _, _)
WriteEach(h, this, pairs, i) ==
    IF i > Len(pairs) THEN [h |-> h, err |-> "none", failed |-> 0]
    ELSE LET r == write(h, this, Str(pairs[i][1]), pairs[i][2])
         IN  IF r.err # "none" THEN [h |-> r.h, err |-> r.err, failed |-> i]
             ELSE WriteEach(r.h, this, pairs, i + 1)

\* a writeEntries that undoes the earlier writes when one raises
writeEntriesAllOrNothing(h, this, pairs) ==
    LET r == WriteEach(h, this, pairs, 1)
    IN  IF r.err # "none" THEN [r EXCEPT !.h = h] ELSE r

writeEntries(h, this, pairs) == WriteEach(h, this, pairs, 1)

(***************************************************************************)
(* entries.  active holds the stores whose entries() call is in progress:  *)
(* entering one of them again repeats the same calls without end, which    *)
(* the runtime ends with a RangeError (call stack exhausted).  The result  *)
(* object is a function from its keys to primitives and nested objects.    *)
(***************************************************************************)
OutPrim(p) == [k |-> "prim", p |-> p, o |-> <<>>]
OutObj(o) == [k |-> "obj", p |-> "", o |-> o]

\* what the branches of entries() do with one stored value:
\* recurse into a store, assign a value, or leave the key out
EntryBranch(value) ==
    IF value.k = "store" THEN [do |-> "recurse", r |-> value.r, p |-> ""]
    ELSE IF truthy(value) /\ value.k = "fn"
    THEN LET functionResult == call(value)
         IN  IF functionResult.k = "store"
             THEN [do |-> "recurse", r |-> functionResult.r, p |-> ""]
             ELSE IF truthy(functionResult)
             THEN [do |-> "assign", r |-> 0, p |-> functionResult.p]
             ELSE [do |-> "skip", r |-> 0, p |-> ""]
    ELSE IF truthy(value) THEN [do |-> "assign", r |-> 0, p |-> value.p]
    ELSE [do |-> "skip", r |-> 0, p |-> ""]

\* an entries() that visits every key, readable or not
VisitedKeysUnchecked(this) == DOMAIN this.storeEntries

\* the keys of storeEntries that pass `if (this.allowedToRead(key))`
VisitedKeys(this) == {key \in DOMAIN this.storeEntries : allowedToRead(this, key)}

RECURSIVE entries(_, _, _)
entries(h, this, active) ==
    IF this \in active THEN [err |-> "RangeError", obj |-> <<>>]
    ELSE
    LET storeEntries == h[this].storeEntries
        keys == {key \in VisitedKeys(h[this]) :
                    EntryBranch(storeEntries[key]).do # "skip"}
        sub == [key \in {y \in keys : EntryBranch(storeEntries[y]).do = "recurse"} |->
                    entries(h, EntryBranch(storeEntries[key]).r, active \cup {this})]
    IN  IF \E key \in DOMAIN sub : sub[key].err # "none"
        THEN [err |-> "RangeError", obj |-> <<>>]
        ELSE [err |-> "none",
              obj |-> [key \in keys |->
                         IF key \in DOMAIN sub THEN OutObj(sub[key].obj)
                         ELSE OutPrim(EntryBranch(storeEntries[key]).p)]]

(***************************************************************************)
(* The caller.  It holds the root store (heap[1]) and calls its public     *)
(* operations; it can pass any store constructed so far as a value, wrap   *)
(* it in a function, and set the public permission state of any store.     *)
(***************************************************************************)
root == 1

A == <<"a">>
B == <<"b">>
AA == <<"a", ":", "a">>
AB == <<"a", ":", "b">>
BA == <<"b", ":", "a">>
ABA == <<"a", ":", "b", ":", "a">>

Keys == {A, B}
PrimPaths == {Str(A), Str(B), Str(AA), Str(AB), Str(BA), Str(ABA)}
PrimValues == {Prim("1"), Prim("0"), Undefined}
CompositePaths == {Str(A), Str(AB), Str(BA)}
DeferredPaths == {Str(A), Str(B)}
DeferredPrims == {FnPrim("1"), FnPrim("0"), FnUndefined}
StorePaths == {Str(A), Str(AB)}
ReadPaths == PrimPaths \cup {Str(<<"a", ":", "a", ":", "0">>), Str(<<"a", ":", "1", ":", "a">>)}

\* the objects given to writeEntries: {a: 1, b: 0}, {b: 1, a: {b: 1, a: [2, 3]}},
\* {a: [0, {a: 1}], b: 1, c: "x"}
EntriesObjects ==
    << << <<A, Prim("1")>>, <<B, Prim("0")>> >>,
       << <<B, Prim("1")>>, <<A, Json(1)>> >>,
       << <<A, Json(2)>>, <<B, Prim("1")>>, <<(<<"c">>), Prim("'x'")>> >> >>

NoCall ==
    [op |-> "new", path |-> Str(<<>>), value |-> Undefined, obj |-> 0,
     err |-> "none", ret |-> Undefined, failed |-> 0]

\* read and entries leave the heap as it is: a run that goes on after them goes
\* on from the heap before them, so the model ends a run at its observation
Observed == last.op \in {"read", "entries"}

Write(path, value) ==
    /\ steps < MaxSteps /\ ~Observed
    /\ LET r == write(heap, root, path, value)
       IN  /\ r.err # "Bound"
           /\ heap' = r.h
           /\ last' = [NoCall EXCEPT !.op = "write", !.path = path,
                                     !.value = value, !.err = r.err,
                                     !.ret = IF r.err = "none" THEN value
                                             ELSE Undefined]
    /\ steps' = steps + 1

WritePrimitive == \E path \in PrimPaths, value \in PrimValues : Write(path, value)

WriteComposite ==
    \E path \in CompositePaths, c \in 1..Len(Composites) : Write(path, Json(c))

WriteDeferred ==
    \E path \in DeferredPaths :
        \/ \E value \in DeferredPrims : Write(path, value)
        \/ \E r \in 1..Len(heap) : Write(path, FnStore(r))

WriteStore == \E path \in StorePaths, r \in 1..Len(heap) : Write(path, StoreRef(r))

WriteEntries ==
    /\ steps < MaxSteps /\ ~Observed
    /\ \E obj \in 1..Len(EntriesObjects) :
         LET r == writeEntries(heap, root, EntriesObjects[obj])
         IN  /\ r.err # "Bound"
             /\ heap' = r.h
             /\ last' = [NoCall EXCEPT !.op = "writeEntries", !.obj = obj,
                                       !.err = r.err, !.failed = r.failed]
    /\ steps' = steps + 1

SetPermission ==
    /\ steps < MaxSteps /\ ~Observed
    /\ \E this \in 1..Len(heap), key \in Keys, permission \in Permissions :
         /\ heap' = [heap EXCEPT ![this] = setPermission(@, key, permission)]
         /\ last' = [NoCall EXCEPT !.op = "setPermission"]
    /\ steps' = steps + 1

SetDefaultPolicy ==
    /\ steps < MaxSteps /\ ~Observed
    /\ \E this \in 1..Len(heap), permission \in Permissions :
         /\ heap' = [heap EXCEPT ![this].defaultPolicy = permission]
         /\ last' = [NoCall EXCEPT !.op = "defaultPolicy"]
    /\ steps' = steps + 1

Read ==
    /\ ~Observed
    /\ \E path \in ReadPaths :
         LET r == read(heap, root, path)
         IN  last' = [NoCall EXCEPT !.op = "read", !.path = path,
                                    !.err = r.err, !.ret = r.val]
    /\ UNCHANGED <<heap, steps>>

Entries ==
    /\ ~Observed
    /\ last' = [NoCall EXCEPT !.op = "entries", !.err = entries(heap, root, {}).err]
    /\ UNCHANGED <<heap, steps>>

Init ==
    /\ heap \in {<<Store(T)>> : T \in StoreTypes}
    /\ last = NoCall
    /\ steps = 0

Next ==
    \/ WritePrimitive
    \/ WriteComposite
    \/ WriteDeferred
    \/ WriteStore
    \/ WriteEntries
    \/ SetPermission
    \/ SetDefaultPolicy
    \/ Read
    \/ Entries

Spec == Init /\ [][Next]_vars

(***************************************************************************)
(* Longer runs of a caller with fewer inputs: writes through two-segment   *)
(* paths, a function yielding a store under a, the write permission of a   *)
(* taken away on the root, and paths that are null, undefined or hold an   *)
(* empty segment.                                                          *)
(***************************************************************************)
NarrowPaths == {Str(AB), Str(BA)}
OddPaths == {NullPath, UndefinedPath, Str(<<>>), Str(<<"a", ":">>)}
NarrowPermissions == {"r", "none"}

LongWrite(path, value) ==
    /\ steps < MaxLongSteps /\ ~Observed
    /\ LET r == write(heap, root, path, value)
       IN  /\ r.err # "Bound"
           /\ heap' = r.h
           /\ last' = [NoCall EXCEPT !.op = "write", !.path = path,
                                     !.value = value, !.err = r.err,
                                     !.ret = IF r.err = "none" THEN value
                                             ELSE Undefined]
    /\ steps' = steps + 1

NarrowWrite == \E path \in NarrowPaths : LongWrite(path, Prim("1"))

NarrowDeferred == \E r \in 1..Len(heap) : LongWrite(Str(A), FnStore(r))

OddPathWrite == \E path \in OddPaths : LongWrite(path, Prim("1"))

NarrowSetPermission ==
    /\ steps < MaxLongSteps /\ ~Observed
    /\ \E permission \in NarrowPermissions :
         /\ heap' = [heap EXCEPT ![root] = setPermission(@, A, permission)]
         /\ last' = [NoCall EXCEPT !.op = "setPermission"]
    /\ steps' = steps + 1

OddPathRead ==
    /\ ~Observed
    /\ \E path \in OddPaths :
         LET r == read(heap, root, path)
         IN  last' = [NoCall EXCEPT !.op = "read", !.path = path,
                                    !.err = r.err, !.ret = r.val]
    /\ UNCHANGED <<heap, steps>>

NextLong ==
    \/ NarrowWrite
    \/ NarrowDeferred
    \/ OddPathWrite
    \/ NarrowSetPermission
    \/ OddPathRead
    \/ Read
    \/ Entries

SpecLong == Init /\ [][NextLong]_vars

(***************************************************************************)
(* The store graph                                                         *)
(***************************************************************************)
Stores == 1..Len(heap)

\* the stores held directly by the entries of store s
Children(h, s) ==
    {h[s].storeEntries[key].r :
        key \in {y \in DOMAIN h[s].storeEntries : h[s].storeEntries[y].k = "store"}}

RECURSIVE Descendants(_, _, _)
\* the stores reached from the set from by one or more child-store entries
Descendants(h, from, n) ==
    LET next == UNION {Children(h, s) : s \in from}
    IN  IF n = 0 THEN {} ELSE next \cup Descendants(h, next, n - 1)

Cyclic(h) == \E s \in 1..Len(h) : s \in Descendants(h, {s}, Len(h))

\* the store and key that a string path addresses from store this, following
\* child-store entries; store 0 when a segment before the last holds no store
RECURSIVE Terminal(_, _, _)
Terminal(h, this, parts) ==
    IF Len(parts) = 1 THEN [store |-> this, key |-> parts[1]]
    ELSE LET entry == MapGet(h[this].storeEntries, parts[1])
         IN  IF entry.k = "store" THEN Terminal(h, entry.r, Tail(parts))
             ELSE [store |-> 0, key |-> <<>>]

WroteOk == last.op = "write" /\ last.err = "none" /\ last.path.k = "string"

(***************************************************************************)
(* C1  Round trip: after a write(p, v) of a primitive v that succeeded,    *)
(* when the last key of p is readable in the store that holds it,          *)
(* read(p) returns exactly v.                                              *)
(***************************************************************************)
C1_Case ==
    /\ WroteOk
    /\ last.value.k = "prim"
    /\ LET t == Terminal(heap, root, split(last.path.s, ":"))
       IN  t.store # 0 /\ allowedToRead(heap[t.store], t.key)

C1_RoundTrip == C1_Case => read(heap, root, last.path) = Returned(last.value)

\* the round trip in the heaps where no store is its own descendant
C1_RoundTripAcyclic == (C1_Case /\ ~Cyclic(heap)) => read(heap, root, last.path) = Returned(last.value)

(***************************************************************************)
(* C2  Denied write: a write that raises the access-denied error leaves    *)
(* every store that existed before the call exactly as it was: entries,    *)
(* permission overrides and default policy.                                *)
(***************************************************************************)
C2_DeniedWriteUnchanged ==
    [][(last'.op = "write" /\ last'.err = "WriteDenied") => heap' = heap]_vars

\* a denied write of a composite through a path of several segments, on a
\* store that holds entries
C2_Witness ==
    /\ last.op = "write" /\ last.err = "WriteDenied"
    /\ last.value.k = "json"
    /\ Len(split(last.path.s, ":")) > 1
    /\ DOMAIN heap[root].storeEntries # {}
    /\ ~Cyclic(heap)

(***************************************************************************)
(* The permission policy as the specification states it                    *)
(***************************************************************************)
PolicyFor(s, key) ==
    IF key \in DOMAIN s.permissionMap THEN s.permissionMap[key]
    ELSE s.defaultPolicy

AllowsRead(s, key) == PolicyFor(s, key) \in {"r", "rw"}
AllowsWrite(s, key) == PolicyFor(s, key) \in {"w", "rw"}

\* the store whose entries() gives the nested object under key of store s
StoreBehind(h, s, key) ==
    LET value == h[s].storeEntries[key]
    IN  IF value.k = "store" THEN value.r ELSE call(value).r

EntriesCalled == last.op = "entries" /\ last.err = "none"

(***************************************************************************)
(* C3  entries() never exposes a denied key: at every depth of the object  *)
(* it returns, each key is one that the policy of the store holding it     *)
(* allows to read, also in a store reached through a deferred value.       *)
(***************************************************************************)
RECURSIVE NoDeniedKey(_, _, _)
NoDeniedKey(h, s, obj) ==
    \A key \in DOMAIN obj :
        /\ AllowsRead(h[s], key)
        /\ obj[key].k = "obj" => NoDeniedKey(h, StoreBehind(h, s, key), obj[key].o)

C3_NoDeniedKey ==
    EntriesCalled => NoDeniedKey(heap, root, entries(heap, root, {}).obj)

\* a denied key holding a value in a nested store that entries() returns,
\* next to a readable one
RECURSIVE HidesKey(_, _, _, _)
HidesKey(h, s, obj, depth) ==
    \/ /\ depth > 0
       /\ DOMAIN obj # {}
       /\ \E key \in DOMAIN h[s].storeEntries :
            ~AllowsRead(h[s], key) /\ truthy(h[s].storeEntries[key])
    \/ \E key \in DOMAIN obj :
         obj[key].k = "obj" /\ HidesKey(h, StoreBehind(h, s, key), obj[key].o, depth + 1)

C3_Witness == EntriesCalled /\ HidesKey(heap, root, entries(heap, root, {}).obj, 0)

(***************************************************************************)
(* C4  entries() includes every readable primitive: a readable key whose   *)
(* value is a primitive, or a deferred value yielding a primitive, is in   *)
(* the returned object with that primitive; only absent values are left    *)
(* out.                                                                    *)
(***************************************************************************)
PrimitiveUnder(value) ==
    IF value.k = "prim" THEN value.p
    ELSE IF value.k = "fn" /\ value.f = "prim" THEN value.p
    ELSE "absent"

C4_EveryReadablePrimitive ==
    EntriesCalled =>
        LET obj == entries(heap, root, {}).obj
        IN  \A key \in DOMAIN heap[root].storeEntries :
                LET p == PrimitiveUnder(heap[root].storeEntries[key])
                IN  (AllowsRead(heap[root], key) /\ p # "absent")
                        => (key \in DOMAIN obj /\ obj[key] = OutPrim(p))

(***************************************************************************)
(* C5  Composite expansion: after a successful write(k, c) of a JSON       *)
(* object or array c under the key k, the entry under k is a child store   *)
(* and every leaf of c, reached by the object keys and decimal array       *)
(* indices s1..sn and holding the primitive v, is read back as v from the  *)
(* path k:s1:...:sn.                                                       *)
(***************************************************************************)
\* the leaves of a JSON value: <<segments, primitive>>
RECURSIVE Leaves(_, _)
Leaves(j, segs) ==
    IF j.k = "prim" THEN {<<segs, j.p>>}
    ELSE UNION {Leaves(IF j.k = "arr" THEN j.items[i] ELSE j.items[i][2],
                       Append(segs, IF j.k = "arr" THEN <<Digits[i]>>
                                    ELSE j.items[i][1])) :
                    i \in 1..Len(j.items)}

\* no object key of the JSON value holds the path separator
RECURSIVE KeysAreSegments(_)
KeysAreSegments(j) ==
    \A i \in 1..Len(j.items) :
        /\ j.k = "obj" => \A n \in 1..Len(j.items[i][1]) : j.items[i][1][n] # ":"
        /\ KeysAreSegments(IF j.k = "arr" THEN j.items[i] ELSE j.items[i][2])

C5_Case ==
    /\ WroteOk
    /\ last.value.k = "json"
    /\ Len(split(last.path.s, ":")) = 1

LeavesReadBack ==
    /\ MapGet(heap[root].storeEntries, last.path.s).k = "store"
    /\ \A leaf \in Leaves(Composites[last.value.c], <<>>) :
         read(heap, root, Str(join(<<last.path.s>> \o leaf[1], ":")))
             = Returned(Prim(leaf[2]))

\* the claim as stated, for every composite
C5_CompositeExpansion == C5_Case => LeavesReadBack

\* the claim for the composites whose object keys are single path segments
C5_CompositeExpansionSegmentKeys ==
    (C5_Case /\ KeysAreSegments(Composites[last.value.c])) => LeavesReadBack

\* {b: 1, a: [2, 3]} was written under a key and has leaves two levels down
C5_Witness ==
    /\ C5_Case
    /\ last.value.c = 1
    /\ \E leaf \in Leaves(Composites[1], <<>>) : Len(leaf[1]) = 2

(***************************************************************************)
(* C6  Auto-vivification: a write to s1:...:sn, n >= 2, on a store where   *)
(* s1 is absent and writable succeeds; afterwards every proper prefix of   *)
(* the path holds a child store, and read(s1:...:sn) returns the value     *)
(* written when it is one that read hands back as stored (a primitive,     *)
(* absent or a store reference).                                           *)
(***************************************************************************)
\* the stored value that a path addresses, following child-store entries
ValueAt(h, this, parts) ==
    LET t == Terminal(h, this, parts)
    IN  IF t.store = 0 THEN Undefined ELSE MapGet(h[t.store].storeEntries, t.key)

PolicyKeys == Keys \cup {<<"c">>, <<>>}

C7_PolicyResolution ==
    \A s \in Stores : \A key \in PolicyKeys :
        /\ getPermission(heap[s], key) = PolicyFor(heap[s], key)
        /\ allowedToRead(heap[s], key) <=> PolicyFor(heap[s], key) \in {"r", "rw"}
        /\ allowedToWrite(heap[s], key) <=> PolicyFor(heap[s], key) \in {"w", "rw"}
        /\ (heap[s].defaultPolicy = "none" /\ key \notin DOMAIN heap[s].permissionMap)
              => /\ read(heap, s, Str(key)).err = "ReadDenied"
                 /\ write(heap, s, Str(key), Prim("1")).err = "WriteDenied"

\* a store with defaultPolicy none and a read-write override, and a read of
\* a key without override that was denied
C7_Witness ==
    /\ heap[root].defaultPolicy = "none"
    /\ A \in DOMAIN heap[root].permissionMap
    /\ heap[root].permissionMap[A] = "rw"
    /\ last.op = "read" /\ last.path = Str(B) /\ last.err = "ReadDenied"
    /\ B \notin DOMAIN heap[root].permissionMap

(***************************************************************************)
(* C8  No cycles: no store is reachable from itself through child-store    *)
(* entries, whatever the caller writes.                                    *)
(***************************************************************************)
C8_NoCycles == ~Cyclic(heap)

(***************************************************************************)
(* C9  entries() always completes without error.                           *)
(***************************************************************************)
C9_EntriesCompletes == last.op = "entries" => last.err = "none"

(***************************************************************************)
(* C10  writeEntries is a non-transactional batch: it writes the keys in   *)
(* the object's order; when the write of a key raises, the error reaches   *)
(* the caller, the keys before it hold what was written and the keys       *)
(* after it are as they were before the call.  A batch in which no write   *)
(* raises leaves every key written.                                        *)
(***************************************************************************)
\* what a successful write of the pair leaves under its key
HoldsPair(s, pair) ==
    LET entry == MapGet(s.storeEntries, pair[1])
    IN  IF pair[2].k = "json" THEN entry.k = "store" ELSE entry = pair[2]

C10_NonTransactionalBatch ==
    [][last'.op = "writeEntries"
        => LET pairs == EntriesObjects[last'.obj]
               i == last'.failed
           IN  IF i = 0
               THEN /\ last'.err = "none"
                    /\ \A j \in 1..Len(pairs) :
                         /\ AllowsWrite(heap[root], pairs[j][1])
                         /\ HoldsPair(heap'[root], pairs[j])
               ELSE
               /\ last'.err = "WriteDenied"
               /\ ~AllowsWrite(heap[root], pairs[i][1])
               /\ \A j \in 1..(i - 1) :
                    /\ AllowsWrite(heap[root], pairs[j][1])
                    /\ HoldsPair(heap'[root], pairs[j])
               /\ \A j \in i..Len(pairs) :
                    MapGet(heap'[root].storeEntries, pairs[j][1])
                        = MapGet(heap[root].storeEntries, pairs[j][1])]_vars

\* a batch that raised at its second key of three, after writing the first
C10_Witness ==
    /\ last.op = "writeEntries"
    /\ last.failed = 2
    /\ Len(EntriesObjects[last.obj]) = 3
    /\ HoldsPair(heap[root], EntriesObjects[last.obj][1])

(***************************************************************************)
(* The two errors of the code that stand for the invalid-path error        *)
(***************************************************************************)
InvalidPathErrors == {"NullPath", "IncorrectPath"}

(***************************************************************************)
(* C11  Invalid traversal: a read of head:rest raises the invalid-path     *)
(* error whenever the entry under head is absent, a primitive or a         *)
(* deferred value that does not yield a store; it returns no value and     *)
(* leaves every store as it was.                                           *)
(***************************************************************************)
\* the entry under the head of the path is nothing a read can go through
HeadHoldsNoStore(h, this, parts) ==
    LET entry == MapGet(h[this].storeEntries, parts[1])
    IN  \/ entry.k \in {"undefined", "prim"}
        \/ entry.k = "fn" /\ entry.f # "store"

C11_InvalidTraversal ==
    [][LET parts == split(last'.path.s, ":")
       IN  (/\ last'.op = "read" /\ last'.path.k = "string"
            /\ Len(parts) > 1
            /\ HeadHoldsNoStore(heap, root, parts))
           => /\ last'.err \in InvalidPathErrors
              /\ last'.ret = Undefined
              /\ heap' = heap]_vars

\* a read through a head that holds a function yielding a primitive
C11_Witness ==
    /\ last.op = "read" /\ last.err = "IncorrectPath"
    /\ Len(split(last.path.s, ":")) > 1
    /\ MapGet(heap[root].storeEntries, split(last.path.s, ":")[1]).f = "prim"

(***************************************************************************)
(* C12  Null or absent path: read and write called with a path that is     *)
(* null or undefined raise the invalid-path error, and no store changes.   *)
(***************************************************************************)
C12_NullOrAbsentPath ==
    (last.op \in {"read", "write"} /\ last.path.k \in {"null", "undefined"})
        => last.err \in InvalidPathErrors

(***************************************************************************)
(* C13  Child stores keep the creator's concrete type: the caller          *)
(* constructs the root only, so every other store was made by              *)
(* createInstance of a store of the root's tree and has the root's type    *)
(* and starts with the overrides that type declares.                       *)
(***************************************************************************)
C13_ChildKeepsType == \A s \in Stores : heap[s].type = heap[root].type

(***************************************************************************)
(* C14  A multi-segment write checks the head only when it vivifies: when  *)
(* the entry under head is absent or no store, write(head:rest, v) raises  *)
(* access denied if head is not writable and otherwise puts a new store    *)
(* under head; when the entry under head is a store, the write goes into   *)
(* it whatever the write permission of head is.                            *)
(***************************************************************************)
C14_HeadCheckedWhenVivifying ==
    [][LET parts == split(last'.path.s, ":")
           head == parts[1]
           entry == MapGet(heap[root].storeEntries, head)
           rest == Str(join(Tail(parts), ":"))
       IN  (last'.op = "write" /\ last'.path.k = "string" /\ Len(parts) > 1)
           => IF entry.k # "store"
              THEN IF ~AllowsWrite(heap[root], head)
                   THEN last'.err = "WriteDenied" /\ heap' = heap
                   ELSE /\ last'.err = "none"
                        /\ heap'[root].storeEntries[head].k = "store"
                        /\ heap'[root].storeEntries[head].r > Len(heap)
              ELSE /\ last'.err = write(heap, entry.r, rest, last'.value).err
                   /\ last'.err = "none" =>
                        heap'[root].storeEntries[head] = entry]_vars

\* a write that went into the store under a head whose policy allows no write
C14_Witness ==
    /\ WroteOk
    /\ Len(split(last.path.s, ":")) > 1
    /\ ~AllowsWrite(heap[root], split(last.path.s, ":")[1])
    /\ ~Cyclic(heap)

(***************************************************************************)
(* C15  A multi-segment read checks only the leaf: the outcome of          *)
(* read(s1:...:sn), n >= 2, is the same whatever the policies of           *)
(* s1..s(n-1) are in the stores the read goes through; a path through a    *)
(* key with policy none or write-only is read when its leaf is readable.   *)
(***************************************************************************)
\* the <<store, key>> entries that read looks up along a path, in order; it
\* goes on through a store and through a function yielding a store
RECURSIVE ReadSlots(_, _, _)
ReadSlots(h, this, parts) ==
    IF Len(parts) = 1 THEN << <<this, parts[1]>> >>
    ELSE LET entry == MapGet(h[this].storeEntries, parts[1])
             next == IF entry.k = "store" \/ (entry.k = "fn" /\ entry.f = "store")
                     THEN entry.r ELSE 0
         IN  << <<this, parts[1]>> >>
                 \o (IF next = 0 THEN <<>> ELSE ReadSlots(h, next, Tail(parts)))

C15_ReadChecksOnlyLeaf ==
    LET parts == split(last.path.s, ":")
        slots == ReadSlots(heap, root, parts)
    IN  (last.op = "read" /\ last.path.k = "string" /\ Len(parts) >= 2)
        => \A i \in 1..Len(slots) : \A permission \in Permissions :
             (i < Len(parts) /\ (Len(slots) = Len(parts) => slots[i] # slots[Len(parts)]))
             => read([heap EXCEPT ![slots[i][1]] =
                                    setPermission(@, slots[i][2], permission)],
                     root, last.path)
                  = [err |-> last.err, val |-> last.ret]

\* a primitive read through a head whose policy is none
C15_Witness ==
    /\ last.op = "read" /\ last.err = "none" /\ last.ret.k = "prim"
    /\ Len(split(last.path.s, ":")) >= 2
    /\ PolicyFor(heap[root], split(last.path.s, ":")[1]) = "none"
    /\ ~Cyclic(heap)

(***************************************************************************)
(* C16  A composite write replaces, never merges: after a successful       *)
(* write(k, c) of a composite c under the key k, the store under k is a    *)
(* new one that holds exactly the leaf paths of c; nothing that was under  *)
(* k before is left unless c holds it.                                     *)
(***************************************************************************)
\* the paths of the entries held in the tree of store s that are no stores,
\* down to depth n
RECURSIVE StoredPaths(_, _, _)
StoredPaths(h, s, n) ==
    UNION {LET entry == h[s].storeEntries[key]
           IN  IF entry.k = "store"
               THEN IF n = 0 THEN {}
                    ELSE {key \o <<":">> \o sub : sub \in StoredPaths(h, entry.r, n - 1)}
               ELSE {key} :
           key \in DOMAIN h[s].storeEntries}

LeafPaths(j) == {join(leaf[1], ":") : leaf \in Leaves(j, <<>>)}

C16_CompositeReplaces ==
    [][LET parts == split(last'.path.s, ":")
           entry == heap'[root].storeEntries[parts[1]]
       IN  (/\ last'.op = "write" /\ last'.err = "none" /\ last'.path.k = "string"
            /\ last'.value.k = "json"
            /\ Len(parts) = 1)
           => /\ entry.k = "store"
              /\ entry.r > Len(heap)
              /\ StoredPaths(heap', entry.r, Len(heap'))
                     = LeafPaths(Composites[last'.value.c])]_vars

\* the empty object written over a key that held a store with entries
C16_Witness ==
    /\ C5_Case
    /\ last.value.c = 3
    /\ steps = 2
    /\ \E s \in Stores :
         /\ s # root
         /\ s \notin Children(heap, root)
         /\ DOMAIN heap[s].storeEntries # {}

(***************************************************************************)
(* C17  Stored keys are never empty: no store holds an entry under the     *)
(* empty string, since a path with an empty segment is no valid path.      *)
(***************************************************************************)
C17_NoEmptyKey ==
    \A s \in Stores : <<>> \notin DOMAIN heap[s].storeEntries

(***************************************************************************)
(* C18  Exclusive ownership: every store other than the root is held by    *)
(* exactly one entry of exactly one store.                                 *)
(***************************************************************************)
\* the entries (store, key) that hold the store s directly
Holders(h, s) ==
    UNION {{<<t, key>> : key \in {k \in DOMAIN h[t].storeEntries :
                                      /\ h[t].storeEntries[k].k = "store"
                                      /\ h[t].storeEntries[k].r = s}} :
           t \in 1..Len(h)}

C18_ExclusiveOwnership ==
    \A s \in Stores : s # root => Cardinality(Holders(heap, s)) <= 1

(***************************************************************************)
(* C19  Frame of a write, as stated: after a successful write(p, v), for   *)
(* every path q such that neither of p and q is a prefix of the other,     *)
(* read(q) gives the same outcome as before the write, and no store's      *)
(* permission overrides or default policy change.                          *)
(***************************************************************************)
IsPrefix(s, t) == Len(s) <= Len(t) /\ SubSeq(t, 1, Len(s)) = s

SamePolicies ==
    \A s \in 1..Len(heap) :
        /\ heap'[s].permissionMap = heap[s].permissionMap
        /\ heap'[s].defaultPolicy = heap[s].defaultPolicy

WroteOkNext ==
    last'.op = "write" /\ last'.err = "none" /\ last'.path.k = "string"

C19_WriteFrame ==
    [][WroteOkNext =>
         LET p == split(last'.path.s, ":")
         IN  /\ \A q \in ReadPaths :
                  (~IsPrefix(p, split(q.s, ":")) /\ ~IsPrefix(split(q.s, ":"), p))
                  => read(heap', root, q) = read(heap, root, q)
             /\ SamePolicies]_vars

(***************************************************************************)
(* C19 (amended)  A successful write(p, v) replaces only entries on its    *)
(* own walk: the entry under the last segment in the store the walk ends   *)
(* in, and the entry under a segment before it when that entry holds no    *)
(* store.  For every path q whose read visits none of the replaced         *)
(* entries, read(q) gives the same outcome as before the write, and no     *)
(* store's permission overrides or default policy change.                  *)
(***************************************************************************)
\* the entries (store, key) of the stores of h that write(parts, v) replaces
RECURSIVE WriteSlots(_, _, _)
WriteSlots(h, this, parts) ==
    IF Len(parts) = 1 THEN {<<this, parts[1]>>}
    ELSE LET entry == MapGet(h[this].storeEntries, parts[1])
         IN  IF entry.k = "store" THEN WriteSlots(h, entry.r, Tail(parts))
             ELSE {<<this, parts[1]>>}

SlotsRead(h, this, parts) ==
    LET slots == ReadSlots(h, this, parts)
    IN  {slots[i] : i \in 1..Len(slots)}

C19_WriteFrameSlots ==
    [][WroteOkNext =>
         LET replaced == WriteSlots(heap, root, split(last'.path.s, ":"))
         IN  /\ \A q \in ReadPaths :
                  SlotsRead(heap, root, split(q.s, ":")) \cap replaced = {}
                  => read(heap', root, q) = read(heap, root, q)
             /\ SamePolicies]_vars

\* a write under a store that is there already, and a sibling entry in that
\* store that holds a value and reads the same afterwards
C19_Witness ==
    LET p == split(last.path.s, ":")
    IN  /\ WroteOk /\ steps = 2
        /\ Len(p) = 2
        /\ ~Cyclic(heap)
        /\ heap[root].storeEntries[p[1]].k = "store"
        /\ \E key \in Keys \ {p[2]} :
             /\ key \in DOMAIN heap[heap[root].storeEntries[p[1]].r].storeEntries
             /\ read(heap, root, Str(p[1] \o <<":">> \o key)).err = "none"
             /\ read(heap, root, Str(p[1] \o <<":">> \o key)).val.k = "prim"

(***************************************************************************)
(* C20  Reads traverse deferred stores but writes do not: when the entry   *)
(* under head is a function that yields a store S, read(head:rest) is      *)
(* S.read(rest), whereas write(head:rest, v) with head writable never      *)
(* writes into S: it succeeds, puts a newly created store that holds only  *)
(* the first segment of rest in place of the function, and leaves every    *)
(* other entry of every store there was as it is.                          *)
(***************************************************************************)
HeadIsDeferredStore(h, parts) ==
    /\ Len(parts) >= 2
    /\ MapGet(h[root].storeEntries, parts[1]).k = "fn"
    /\ MapGet(h[root].storeEntries, parts[1]).f = "store"

C20_DeferredReadNotWrite ==
    [][LET parts == split(last'.path.s, ":")
           S == MapGet(heap[root].storeEntries, parts[1]).r
           rest == Tail(parts)
           new == Len(heap) + 1
       IN  (last'.path.k = "string" /\ HeadIsDeferredStore(heap, parts))
           => /\ last'.op = "read"
                 => [err |-> last'.err, val |-> last'.ret]
                        = read(heap, S, Str(join(rest, ":")))
              /\ (last'.op = "write" /\ allowedToWrite(heap[root], parts[1]))
                 => /\ last'.err = "none"
                    /\ Len(heap') >= new
                    /\ SubSeq(heap', 1, Len(heap))
                           = SetEntry(heap, root, parts[1], StoreRef(new))
                    /\ DOMAIN heap'[new].storeEntries = {rest[1]}]_vars

\* a store with entries that the root reached through a function, left aside
\* by a write through that head
C20_Witness ==
    LET parts == split(last.path.s, ":")
    IN  /\ WroteOk /\ steps = 3
        /\ Len(parts) = 2
        /\ MapGet(heap[root].storeEntries, parts[1]).k = "store"
        /\ \E s \in Stores \ {root} :
             /\ s \notin Children(heap, root)
             /\ parts[2] \in DOMAIN heap[s].storeEntries
             /\ heap[s].storeEntries[parts[2]].k = "prim"
====
